---- MODULE Spec2Model ----
(***************************************************************************)
(* Ticket store, queue projection and lifecycle operations of the          *)
(* queue-system single page application (src/src/App.tsx).                 *)
(*                                                                         *)
(* Strings are sequences of characters, display numbers are sequences of   *)
(* decimal digits, and the optional fields of a ticket (startedAt, doneAt, *)
(* result) are fields that are absent from the record until written.       *)
(* Every handler is one action: React flushes the state update of a click  *)
(* and re-renders before the next click is dispatched, so a handler reads  *)
(* the projections of the current store.  A handler whose guard fails      *)
(* returns before it writes anything and is a stuttering step.             *)
(*                                                                         *)
(* clock is the last value Date.now() returned; successive readings do not *)
(* decrease and may be equal.  issued records, in order, the numbers given *)
(* to created tickets; it is not program state.                            *)
(*                                                                         *)
(* now is the displayed time, storage the value kept under the storage key, *)
(* storageWritable whether localStorage.setItem succeeds (it throws when    *)
(* the quota is used up or storage is disabled), otherTab the store held by *)
(* a second tab of the same browser.  statsAt is the reading of Date.now()  *)
(* the statistics memos took when they were last computed, which is when    *)
(* the tickets array last changed; the render that follows a handler is     *)
(* taken to read the clock at the instant the handler ended.  bumped is the *)
(* set of ids of the tickets a traced bump was applied to; like issued it   *)
(* is not program state.                                                    *)
(*                                                                         *)
(* Spec starts from the empty store.  QueueSpec starts from any array of   *)
(* up to MaxLen tickets found in storage and runs call-next and            *)
(* bump-priority on it, so that the queue projection is exercised on       *)
(* stores whose createdAt values do not follow the store order.            *)
(* In both, storage takes every write, no tick is taken and no second tab   *)
(* is open: no handler reads the displayed time, and the persisted value is *)
(* read at page load only.  LoadSpec loads the page on any stored value,    *)
(* StorageSpec runs the store mutations while storage stops and resumes     *)
(* taking writes, TimerSpec puts timer ticks between the operations, and    *)
(* TabsSpec runs a second tab on the same storage key.  DrainSpec and       *)
(* LiveSpec serve a stored array of waiting tickets without creating any,   *)
(* LiveSpec with an operator who does not leave an enabled call or          *)
(* complete/skip button alone for ever; OvertakeSpec records the bumps;     *)
(* SnapshotSpec lets two handlers of one render run before the next render, *)
(* which no sequence of clicks does.                                        *)
(***************************************************************************)
EXTENDS Integers, Sequences, FiniteSets, TLC

VARIABLES tickets, clock, currentResultDraft, applySuccessMsg, issued,
          now, storage, storageWritable, otherTab, statsAt, bumped

vars == <<tickets, clock, currentResultDraft, applySuccessMsg, issued,
          now, storage, storageWritable, otherTab, statsAt, bumped>>

\* what no click handler writes: the displayed time, whether the browser
\* accepts a write to storage, the store of a second tab, and the record of
\* the bumps
env == <<now, storageWritable, otherTab, bumped>>

(* ------------------------------ bounds -------------------------------- *)

\* number of tickets created over a whole run (resets included)
MaxCreated == 2
\* last instant Date.now() can return
MaxTime == 0
\* length of a store found in storage at start-up
MaxLen == 3

(* --------------------------- input alphabets --------------------------- *)

Priorities == {"low", "medium", "high"}
Statuses == {"waiting", "in_progress", "done", "skipped"}
\* what the submitter may have typed in the name and description fields
Texts == {<<" ">>, <<" ", "x", " ">>}
\* what the administrator may have typed in the result field
Drafts == {<<>>, <<"o", "k", " ">>}
\* values of the estimated-minutes field
Etas == {0}

(* --------------------------- pure helpers ------------------------------ *)

null == [id |-> 0]

Max(a, b) == IF a >= b THEN a ELSE b

priorityRank(p) ==
  IF p = "high" THEN 3 ELSE IF p = "medium" THEN 2 ELSE 1

\* String(n): the decimal digits of a non-negative integer
RECURSIVE String(_)
String(n) == IF n < 10 THEN <<n>> ELSE Append(String(n \div 10), n % 10)

padStart(s, len, c) ==
  IF Len(s) >= len THEN s ELSE [i \in 1..(len - Len(s)) |-> c] \o s

\* padding to two digits only
pad3_twoDigits(n) == padStart(String(n), 2, 0)

pad3(n) == padStart(String(n), 3, 0)

NaN == -1

\* Number.parseInt(s, 10) of a digit string; NaN for the empty string
RECURSIVE parseDigits(_, _)
parseDigits(s, acc) ==
  IF s = <<>> THEN acc ELSE parseDigits(Tail(s), 10 * acc + Head(s))

parseInt(s) == IF s = <<>> THEN NaN ELSE parseDigits(s, 0)

isFinite(n) == n # NaN

RECURSIVE trimStart(_)
trimStart(s) ==
  IF s # <<>> /\ Head(s) = " " THEN trimStart(Tail(s)) ELSE s

RECURSIVE trimEnd(_)
trimEnd(s) ==
  IF s # <<>> /\ s[Len(s)] = " " THEN trimEnd(SubSeq(s, 1, Len(s) - 1)) ELSE s

trim(s) == trimEnd(trimStart(s))

\* { ...t, k1: v1, ... }: object spread with overriding fields
spread(t, upd) ==
  [k \in DOMAIN t \cup DOMAIN upd |-> IF k \in DOMAIN upd THEN upd[k] ELSE t[k]]

\* comparator whose tie-break puts the newest ticket first
compare_newestFirst(x, y) ==
  LET pr == priorityRank(y.priority) - priorityRank(x.priority)
  IN  IF pr # 0 THEN pr ELSE y.createdAt - x.createdAt

\* the comparator handed to Array.prototype.sort
compare(x, y) ==
  LET pr == priorityRank(y.priority) - priorityRank(x.priority)
  IN  IF pr # 0 THEN pr ELSE x.createdAt - y.createdAt

\* Array.prototype.sort is stable: x goes after every element that does not
\* compare greater than it
RECURSIVE insertSorted(_, _)
insertSorted(s, x) ==
  IF s = <<>> THEN <<x>>
  ELSE IF compare(Head(s), x) <= 0 THEN <<Head(s)>> \o insertSorted(Tail(s), x)
  ELSE <<x>> \o s

RECURSIVE stableSort(_)
stableSort(s) ==
  IF s = <<>> THEN <<>>
  ELSE insertSorted(stableSort(SubSeq(s, 1, Len(s) - 1)), s[Len(s)])

isWaiting(t) == t.status = "waiting"

sortWaitingQueue(ts) == stableSort(SelectSeq(ts, isWaiting))

(* ------------------------- queue projection ---------------------------- *)

\* tickets.find((t) => t.status === 'in_progress') ?? null
inProgress(ts) ==
  LET hits == {i \in 1..Len(ts) : ts[i].status = "in_progress"}
  IN  IF hits = {} THEN null
      ELSE ts[CHOOSE i \in hits : \A j \in hits : i <= j]

\* the waiting tickets in store order, unsorted
waitingQueue_storeOrder(ts) == SelectSeq(ts, isWaiting)

waitingQueue(ts) == sortWaitingQueue(ts)

RECURSIVE maxNumber(_, _)
maxNumber(ts, acc) ==
  IF ts = <<>> THEN acc
  ELSE LET n == parseInt(Head(ts).number)
       IN  maxNumber(Tail(ts), IF isFinite(n) THEN Max(acc, n) ELSE acc)

\* the maximum itself, without the increment
nextNumber_noIncrement(ts) == pad3(Max(1, maxNumber(ts, 0)))

\* the next number taken from the length of the waiting queue
nextNumber_fromWaiting(ts) == pad3(Len(SelectSeq(ts, isWaiting)) + 1)

nextNumber(ts) == pad3(maxNumber(ts, 0) + 1)

(* ------------------------------ handlers ------------------------------- *)

\* crypto.randomUUID(): an identifier no earlier ticket carries
randomUUID == Len(issued) + 1

\* the instants Date.now() can return next
DateNow == clock..MaxTime

validationMsg == [kind |-> "validation"]
emptyMsg == [kind |-> "empty"]
successMsg(number, ahead) == [kind |-> "success", number |-> number, ahead |-> ahead]

\* Number.isFinite(applyEta) ? Math.max(1, Math.floor(applyEta)) : 15
etaOf(applyEta) == IF isFinite(applyEta) THEN Max(1, applyEta) ELSE 15

\* the check of the fields without trimming them
createTicketReturnsEarly_noTrim(applyName, applyDesc) ==
  applyName = <<>> \/ applyDesc = <<>>

createTicketReturnsEarly(applyName, applyDesc) ==
  trim(applyName) = <<>> \/ trim(applyDesc) = <<>>

newTicket(ts, id, applyName, applyDesc, applyPriority, applyEta, at) ==
  [id |-> id, number |-> nextNumber(ts), name |-> trim(applyName),
   desc |-> trim(applyDesc), priority |-> applyPriority,
   etaMinutes |-> etaOf(applyEta), status |-> "waiting", createdAt |-> at]

\* a create that puts the new ticket in front of the store
createTicket_prepends(ts, id, applyName, applyDesc, applyPriority, applyEta, at) ==
  IF createTicketReturnsEarly(applyName, applyDesc) THEN ts
  ELSE <<newTicket(ts, id, applyName, applyDesc, applyPriority, applyEta, at)>> \o ts

createTicket(ts, id, applyName, applyDesc, applyPriority, applyEta, at) ==
  IF createTicketReturnsEarly(applyName, applyDesc) THEN ts
  ELSE Append(ts, newTicket(ts, id, applyName, applyDesc, applyPriority, applyEta, at))

createTicketMsg(ts, applyName, applyDesc) ==
  IF createTicketReturnsEarly(applyName, applyDesc) THEN validationMsg
  ELSE LET hasInProgress == IF inProgress(ts) # null THEN 1 ELSE 0
           waitingCountBefore == Len(SelectSeq(ts, isWaiting))
       IN  successMsg(nextNumber(ts), waitingCountBefore + hasInProgress)

\* call-next without the check for a ticket in progress
callNextReturnsEarly_noInProgressCheck(ts) == Len(waitingQueue(ts)) = 0

callNextReturnsEarly(ts) ==
  inProgress(ts) # null \/ Len(waitingQueue(ts)) = 0

\* a call that sets the status without stamping startedAt
callNextUpdate_noStartedAt(t, at) == spread(t, [status |-> "in_progress"])

callNextUpdate(t, at) == spread(t, [status |-> "in_progress", startedAt |-> at])

\* a call that takes the last ticket of the waiting queue
callNext_takesLast(ts, at) ==
  IF callNextReturnsEarly(ts) THEN ts
  ELSE LET next == waitingQueue(ts)[Len(waitingQueue(ts))]
       IN  [i \in 1..Len(ts) |->
              IF ts[i].id = next.id THEN callNextUpdate(ts[i], at) ELSE ts[i]]

callNext(ts, at) ==
  IF callNextReturnsEarly(ts) THEN ts
  ELSE LET next == waitingQueue(ts)[1]
       IN  [i \in 1..Len(ts) |->
              IF ts[i].id = next.id THEN callNextUpdate(ts[i], at) ELSE ts[i]]

markDoneReturnsEarly(ts) == inProgress(ts) = null

markDone(ts, draft, at) ==
  IF markDoneReturnsEarly(ts) THEN ts
  ELSE LET result == trim(draft)
       IN  [i \in 1..Len(ts) |->
              IF ts[i].id = inProgress(ts).id
              THEN spread(ts[i], [status |-> "done", doneAt |-> at, result |-> result])
              ELSE ts[i]]

markSkippedReturnsEarly(ts) == inProgress(ts) = null

\* skip that puts the ticket back into the waiting queue
markSkippedUpdate_requeue(t) == spread(t, [status |-> "waiting"])

\* skip that stamps a completion time
markSkippedUpdate_stampsDoneAt(t) ==
  spread(t, [status |-> "skipped", doneAt |-> t.startedAt])

markSkippedUpdate(t) == spread(t, [status |-> "skipped"])

markSkipped(ts) ==
  IF markSkippedReturnsEarly(ts) THEN ts
  ELSE [i \in 1..Len(ts) |->
          IF ts[i].id = inProgress(ts).id THEN markSkippedUpdate(ts[i]) ELSE ts[i]]

\* bump that goes straight to high
nextPriority_straightToHigh(p) == "high"

\* bump that wraps around from high to low
nextPriority_wrapAround(p) ==
  IF p = "low" THEN "medium" ELSE IF p = "medium" THEN "high" ELSE "low"

nextPriority(p) ==
  IF p = "low" THEN "medium" ELSE IF p = "medium" THEN "high" ELSE "high"

bumpPriority(ts, id) ==
  [i \in 1..Len(ts) |->
     IF ts[i].id # id THEN ts[i]
     ELSE spread(ts[i], [priority |-> nextPriority(ts[i].priority)])]

\* a bump button in the row of every ticket of the store
bumpRows_everyTicket(ts) == {ts[i].id : i \in 1..Len(ts)}

\* the rows that show an enabled bump button: the rows of the waiting queue
\* whose ticket is not yet high
bumpRows(ts) ==
  {ts[i].id : i \in {j \in 1..Len(ts) : isWaiting(ts[j]) /\ ts[j].priority # "high"}}

\* a reset that spares the ticket in progress
resetAll_keepsInProgress(ts, ok) ==
  LET busy(t) == t.status = "in_progress"
  IN  IF ~ok THEN ts ELSE SelectSeq(ts, busy)

\* ok is the answer to window.confirm
resetAll(ts, ok) == IF ~ok THEN ts ELSE <<>>

\* the ticket whose number is the text of the query field; the field holds
\* digits only, so that the trim of line 130 returns it as it is
queriedTicket(ts, queryNumber) ==
  LET nn == queryNumber
      hits == {i \in 1..Len(ts) : ts[i].number = nn}
  IN  IF nn = <<>> THEN null
      ELSE IF hits = {} THEN null
      ELSE ts[CHOOSE i \in hits : \A j \in hits : i <= j]

\* the count without the ticket in progress
queriedAheadCount_ignoresInProgress(ts, queryNumber) ==
  LET qt == queriedTicket(ts, queryNumber)
      wq == waitingQueue(ts)
      hits == {i \in 1..Len(wq) : wq[i].id = qt.id}
  IN  IF qt = null THEN null
      ELSE IF qt.status # "waiting" THEN 0
      ELSE IF hits = {} THEN 0
      ELSE (CHOOSE i \in hits : \A j \in hits : i <= j) - 1

queriedAheadCount(ts, queryNumber) ==
  LET qt == queriedTicket(ts, queryNumber)
      wq == waitingQueue(ts)
      hits == {i \in 1..Len(wq) : wq[i].id = qt.id}
      idx == IF hits = {} THEN -1 ELSE (CHOOSE i \in hits : \A j \in hits : i <= j) - 1
      aheadInWaiting == IF idx >= 0 THEN idx ELSE 0
      hasInProgress == IF inProgress(ts) # null THEN 1 ELSE 0
  IN  IF qt = null THEN null
      ELSE IF qt.status # "waiting" THEN 0
      ELSE aheadInWaiting + hasInProgress

\* an effect that leaves the draft as it is
draftEffect_keepsDraft(old, new, draft) == draft

\* the effect keyed on inProgress?.id: when the in-progress ticket changes,
\* the draft becomes inProgress?.result ?? ''
draftEffect(old, new, draft) ==
  LET current == inProgress(new)
  IN  IF current.id = inProgress(old).id THEN draft
      ELSE IF "result" \in DOMAIN current THEN current.result
      ELSE <<>>

(* ----------------------------- statistics ------------------------------ *)

\* Math.round(n / d) for d > 0: a half goes up
round(n, d) == (2 * n + d) \div (2 * d)

\* the milliseconds between two instants: instants are half a minute apart
msBetween(a, b) == (b - a) * 30000

minutesBetween(a, b) == Max(0, round(msBetween(a, b), 60000))

\* the local calendar date of an instant: a run spans one midnight, which
\* falls on the last instant
localDate(t) == IF t < MaxTime THEN 0 ELSE 1

isSameLocalDay(a, b) == localDate(a) = localDate(b)

\* the memos read Date.now() into t when the tickets array changes
todayDone(ts, t) ==
  LET row(x) == "doneAt" \in DOMAIN x /\ isSameLocalDay(x.doneAt, t)
  IN  SelectSeq(ts, row)

RECURSIVE sumWait(_)
sumWait(rows) ==
  IF rows = <<>> THEN 0
  ELSE minutesBetween(Head(rows).createdAt, Head(rows).startedAt) + sumWait(Tail(rows))

avgTodayWaitMinutes(ts, t) ==
  LET row(x) == "startedAt" \in DOMAIN x /\ isSameLocalDay(x.startedAt, t)
      rows == SelectSeq(ts, row)
  IN  IF Len(rows) = 0 THEN 0 ELSE round(sumWait(rows), Len(rows))

RECURSIVE sumHandle(_)
sumHandle(rows) ==
  IF rows = <<>> THEN 0
  ELSE minutesBetween(Head(rows).startedAt, Head(rows).doneAt) + sumHandle(Tail(rows))

avgTodayHandleMinutes(ts, t) ==
  LET row(x) == /\ "startedAt" \in DOMAIN x
                /\ "doneAt" \in DOMAIN x
                /\ isSameLocalDay(x.doneAt, t)
      rows == SelectSeq(ts, row)
  IN  IF Len(rows) = 0 THEN 0 ELSE round(sumHandle(rows), Len(rows))

(* ------------------------------ storage -------------------------------- *)

\* localStorage.getItem returns null for a missing key and a string
\* otherwise.  A string is kept as what JSON.parse makes of it: "empty" is
\* the empty string, "invalid" a text JSON.parse rejects, "json" a text that
\* parses to value.  A JSON object is the sequence of its key/value pairs in
\* the order they were written.
absent == [kind |-> "absent"]
emptyString == [kind |-> "empty"]
invalidText == [kind |-> "invalid"]
jsonText(v) == [kind |-> "json", value |-> v]
jsonNull == [type |-> "null"]
jsonNumber(n) == [type |-> "number", n |-> n]
jsonObject(pairs) == [type |-> "object", pairs |-> pairs]
jsonArray(items) == [type |-> "array", items |-> items]

\* the keys of a ticket in the order the handlers write them: the object
\* literal of createTicket, then startedAt, then doneAt and result
FieldOrder ==
  <<"id", "number", "name", "desc", "priority", "etaMinutes", "status",
    "createdAt", "startedAt", "doneAt", "result">>

\* every key of a ticket is written, a field that was never set as null
entries_nullForAbsent(t) ==
  [i \in 1..Len(FieldOrder) |->
     <<FieldOrder[i], IF FieldOrder[i] \in DOMAIN t THEN t[FieldOrder[i]] ELSE jsonNull>>]

\* the own properties of a ticket; a field that was never written is no key
entries(t) ==
  LET present(k) == k \in DOMAIN t
      keys == SelectSeq(FieldOrder, present)
  IN  [i \in 1..Len(keys) |-> <<keys[i], t[keys[i]]>>]

JSONstringify(ts) ==
  jsonText(jsonArray([i \in 1..Len(ts) |-> jsonObject(entries(ts[i]))]))

\* the object JSON.parse builds from the pairs of a JSON object
fromEntries(pairs) ==
  [k \in {pairs[i][1] : i \in 1..Len(pairs)} |->
     pairs[CHOOSE i \in 1..Len(pairs) :
             pairs[i][1] = k /\ \A j \in 1..Len(pairs) : pairs[j][1] = k => j <= i][2]]

\* Boolean(v) of a parsed JSON value: null and 0 are falsy
Boolean(v) ==
  /\ v.type # "null"
  /\ v.type = "number" => v.n # 0

isArray(v) == v.type = "array"

\* a load that takes a stored JSON object for a store of one ticket
load_wrapsObject(raw) ==
  IF raw.kind \in {"absent", "empty"} THEN <<>>
  ELSE IF raw.kind = "invalid" THEN <<>>
  ELSE LET parsed == raw.value
       IN  IF parsed.type = "object" THEN <<fromEntries(parsed.pairs)>>
           ELSE IF ~isArray(parsed) THEN <<>>
           ELSE LET kept == SelectSeq(parsed.items, Boolean)
                IN  [i \in 1..Len(kept) |->
                       IF kept[i].type = "object" THEN fromEntries(kept[i].pairs)
                       ELSE kept[i]]

\* the initial value of the tickets state
load(raw) ==
  IF raw.kind \in {"absent", "empty"} THEN <<>>
  ELSE IF raw.kind = "invalid" THEN <<>>
  ELSE LET parsed == raw.value
       IN  IF ~isArray(parsed) THEN <<>>
           ELSE LET kept == SelectSeq(parsed.items, Boolean)
                IN  [i \in 1..Len(kept) |->
                       IF kept[i].type = "object" THEN fromEntries(kept[i].pairs)
                       ELSE kept[i]]

\* a failed write that leaves the key without a value
persist_failureClears(ts, old, writable) == IF writable THEN JSONstringify(ts) ELSE absent

\* a save that keeps the stored tickets the saving tab does not hold
persist_mergesStored(ts, old, writable) ==
  LET unknown(t) == \A i \in 1..Len(ts) : ts[i].id # t.id
  IN  IF writable THEN JSONstringify(ts \o SelectSeq(load(old), unknown)) ELSE old

\* the effect on [tickets]: setItem replaces the stored value, and a throw
\* of setItem is caught and leaves the stored value as it was
persist(ts, old, writable) == IF writable THEN JSONstringify(ts) ELSE old

(* ------------------------------- state --------------------------------- *)

Init ==
  /\ tickets = <<>>
  /\ clock = 0
  /\ currentResultDraft = <<>>
  /\ applySuccessMsg = emptyMsg
  /\ issued = <<>>
  /\ now = 0
  /\ storageWritable = TRUE
  /\ storage = persist(tickets, absent, storageWritable)
  /\ otherTab = [open |-> FALSE]
  /\ statsAt = 0
  /\ bumped = {}

CreateTicket ==
  \E applyName \in Texts, applyDesc \in Texts, applyPriority \in Priorities,
     applyEta \in Etas, at \in DateNow :
    /\ createTicketReturnsEarly(applyName, applyDesc) \/ Len(issued) < MaxCreated
    /\ tickets' = createTicket(tickets, randomUUID, applyName, applyDesc,
                               applyPriority, applyEta, at)
    /\ applySuccessMsg' = createTicketMsg(tickets, applyName, applyDesc)
    /\ IF createTicketReturnsEarly(applyName, applyDesc)
       THEN UNCHANGED <<clock, issued, storage, statsAt>>
       ELSE /\ clock' = at
            /\ statsAt' = at
            /\ issued' = Append(issued, nextNumber(tickets))
            /\ storage' = persist(tickets', storage, storageWritable)
    /\ currentResultDraft' = draftEffect(tickets, tickets', currentResultDraft)
    /\ UNCHANGED env

CallNext ==
  \E at \in DateNow :
    /\ tickets' = callNext(tickets, at)
    /\ clock' = IF callNextReturnsEarly(tickets) THEN clock ELSE at
    /\ storage' = IF callNextReturnsEarly(tickets) THEN storage
                  ELSE persist(tickets', storage, storageWritable)
    /\ statsAt' = IF callNextReturnsEarly(tickets) THEN statsAt ELSE at
    /\ currentResultDraft' = draftEffect(tickets, tickets', currentResultDraft)
    /\ UNCHANGED <<applySuccessMsg, issued, env>>

\* typing in the result field, which is rendered while a ticket is in progress
SetCurrentResultDraft ==
  \E d \in Drafts :
    /\ inProgress(tickets) # null
    /\ currentResultDraft' = d
    /\ UNCHANGED <<tickets, clock, applySuccessMsg, issued, storage, statsAt, env>>

MarkDone ==
  \E at \in DateNow :
    /\ tickets' = markDone(tickets, currentResultDraft, at)
    /\ clock' = IF markDoneReturnsEarly(tickets) THEN clock ELSE at
    /\ storage' = IF markDoneReturnsEarly(tickets) THEN storage
                  ELSE persist(tickets', storage, storageWritable)
    /\ statsAt' = IF markDoneReturnsEarly(tickets) THEN statsAt ELSE at
    /\ currentResultDraft' = draftEffect(tickets, tickets', currentResultDraft)
    /\ UNCHANGED <<applySuccessMsg, issued, env>>

MarkSkipped ==
  /\ tickets' = markSkipped(tickets)
  /\ storage' = IF markSkippedReturnsEarly(tickets) THEN storage
                ELSE persist(tickets', storage, storageWritable)
  /\ statsAt' = IF markSkippedReturnsEarly(tickets) THEN statsAt ELSE clock
  /\ currentResultDraft' = draftEffect(tickets, tickets', currentResultDraft)
  /\ UNCHANGED <<clock, applySuccessMsg, issued, env>>

\* the bump button of a row of the waiting queue carries the id of its
\* ticket; a disabled button dispatches no click
BumpPriority ==
  \E id \in bumpRows(tickets) :
    /\ tickets' = bumpPriority(tickets, id)
    /\ storage' = persist(tickets', storage, storageWritable)
    /\ statsAt' = clock
    /\ currentResultDraft' = draftEffect(tickets, tickets', currentResultDraft)
    /\ UNCHANGED <<clock, applySuccessMsg, issued, env>>

ResetAll ==
  \E ok \in BOOLEAN :
    IF ~ok THEN UNCHANGED vars
    ELSE /\ tickets' = resetAll(tickets, ok)
         /\ applySuccessMsg' = emptyMsg
         /\ storage' = persist(tickets', storage, storageWritable)
         /\ statsAt' = clock
         /\ currentResultDraft' = draftEffect(tickets, tickets', currentResultDraft)
         /\ UNCHANGED <<clock, issued, env>>

Next ==
  \/ CreateTicket
  \/ CallNext
  \/ SetCurrentResultDraft
  \/ MarkDone
  \/ MarkSkipped
  \/ BumpPriority
  \/ ResetAll

Spec == Init /\ [][Next]_vars

(* ---------------- a store found in storage at start-up ----------------- *)

\* createdAt values of stored tickets
Stamps == 0..(MaxTime + 2)

storedWaiting(i, p, c) ==
  [id |-> i, number |-> pad3(i), name |-> <<"x">>, desc |-> <<"x">>,
   priority |-> p, etaMinutes |-> 1, status |-> "waiting", createdAt |-> c]

storedSkipped(i) ==
  [id |-> i, number |-> pad3(i), name |-> <<"x">>, desc |-> <<"x">>,
   priority |-> "high", etaMinutes |-> 1, status |-> "skipped", createdAt |-> 0,
   startedAt |-> 0]

StoredShapes == (Priorities \X Stamps) \cup {<<"skipped">>}

storedTicket(i, shape) ==
  IF Len(shape) = 1 THEN storedSkipped(i) ELSE storedWaiting(i, shape[1], shape[2])

\* the tickets state is loaded from storage: any array of tickets
QueueInit ==
  /\ \E n \in 0..MaxLen : \E f \in [1..n -> StoredShapes] :
       tickets = [i \in 1..n |-> storedTicket(i, f[i])]
  /\ clock = MaxTime
  /\ currentResultDraft = <<>>
  /\ applySuccessMsg = emptyMsg
  /\ issued = <<>>
  /\ now = clock
  /\ storageWritable = TRUE
  /\ storage = JSONstringify(tickets)
  /\ otherTab = [open |-> FALSE]
  /\ statsAt = clock
  /\ bumped = {}

QueueNext == CallNext \/ BumpPriority

QueueSpec == QueueInit /\ [][QueueNext]_vars

(* ------------- page loads, storage contents and write failures ---------- *)

\* the values the storage key may hold when the page is loaded: nothing, the
\* empty string, a text that is no JSON, JSON texts that are no array, and
\* arrays of tickets and null elements
StoredContents ==
  {absent, emptyString, invalidText, jsonText(jsonNull), jsonText(jsonNumber(1)),
   jsonText(jsonObject(entries(storedWaiting(1, "low", 0)))),
   jsonText(jsonArray(<<>>)),
   jsonText(jsonArray(<<jsonNull>>)),
   jsonText(jsonArray(<<jsonObject(entries(storedWaiting(1, "low", 0)))>>)),
   jsonText(jsonArray(<<jsonNull, jsonObject(entries(storedSkipped(1))), jsonNumber(0)>>))}

\* the state after the first render and its effects: the store is loaded,
\* the persist effect has run, the draft effect has run
mounted(raw, writable, at) ==
  /\ tickets = load(raw)
  /\ storageWritable = writable
  /\ storage = persist(load(raw), raw, writable)
  /\ clock = at
  /\ now = at
  /\ currentResultDraft = draftEffect(<<>>, load(raw), <<>>)
  /\ applySuccessMsg = emptyMsg
  /\ otherTab = [open |-> FALSE]
  /\ statsAt = at
  /\ bumped = {}

\* the page is opened at the last instant on a storage that holds any of the
\* contents; the tickets it finds were issued by an earlier page
LoadInit ==
  \E raw \in StoredContents, writable \in BOOLEAN :
    /\ mounted(raw, writable, MaxTime)
    /\ issued = [i \in 1..Len(load(raw)) |-> load(raw)[i].number]

\* the user reloads the page: every state is initialised again
Reload ==
  \E at \in DateNow :
    /\ tickets' = load(storage)
    /\ storage' = persist(tickets', storage, storageWritable)
    /\ clock' = at
    /\ now' = at
    /\ currentResultDraft' = draftEffect(<<>>, tickets', <<>>)
    /\ applySuccessMsg' = emptyMsg
    /\ statsAt' = at
    /\ UNCHANGED <<issued, storageWritable, otherTab, bumped>>

\* the quota of the origin is used up or freed, or storage is switched off
\* or on in the browser
SetStorageWritable ==
  /\ storageWritable' = ~storageWritable
  /\ UNCHANGED <<tickets, clock, currentResultDraft, applySuccessMsg, issued,
                 now, storage, otherTab, statsAt, bumped>>

\* page loads on any content of storage, with creates and calls in between
LoadNext == Reload \/ SetStorageWritable \/ CreateTicket \/ CallNext

LoadSpec == LoadInit /\ [][LoadNext]_vars

\* the page is opened at the last instant on a storage without the key
StorageInit ==
  /\ mounted(absent, TRUE, MaxTime)
  /\ issued = <<>>

\* the store mutations, on a storage that may stop and resume taking writes
StorageNext ==
  \/ CreateTicket
  \/ CallNext
  \/ MarkDone
  \/ MarkSkipped
  \/ BumpPriority
  \/ ResetAll
  \/ SetStorageWritable

StorageSpec == StorageInit /\ [][StorageNext]_vars

(* ------------------------------ the timer ------------------------------ *)

\* a tick that also clears the finished tickets out of the store
TimerTick_dropsFinished ==
  \E at \in DateNow :
    LET open(t) == t.status \in {"waiting", "in_progress"}
    IN  /\ now' = at
        /\ clock' = at
        /\ tickets' = SelectSeq(tickets, open)
        /\ storage' = persist(tickets', storage, storageWritable)
        /\ statsAt' = at
        /\ UNCHANGED <<currentResultDraft, applySuccessMsg, issued,
                       storageWritable, otherTab, bumped>>

\* the callback of setInterval: setNow(Date.now())
TimerTick ==
  \E at \in DateNow :
    /\ now' = at
    /\ clock' = at
    /\ UNCHANGED <<tickets, currentResultDraft, applySuccessMsg, issued,
                   storage, storageWritable, otherTab, statsAt, bumped>>

\* the page is opened one instant before the last one, so that a tick can
\* show a later time than the mount did
TimerInit ==
  /\ mounted(absent, TRUE, MaxTime - 1)
  /\ issued = <<>>

\* ticks between the operations on the store
TimerNext ==
  \/ TimerTick
  \/ CreateTicket
  \/ CallNext
  \/ MarkDone
  \/ MarkSkipped
  \/ BumpPriority
  \/ ResetAll

TimerSpec == TimerInit /\ [][TimerNext]_vars

(* --------------------------- a second tab ------------------------------ *)

\* a second tab runs the same component on the same storage key; its store
\* is otherTab.tickets, its handlers and its persist effect are those above

OtherTabOpens ==
  /\ ~otherTab.open
  /\ otherTab' = [open |-> TRUE, tickets |-> load(storage)]
  /\ storage' = persist(otherTab'.tickets, storage, storageWritable)
  /\ UNCHANGED <<tickets, clock, currentResultDraft, applySuccessMsg, issued,
                 now, storageWritable, statsAt, bumped>>

OtherTabCreateTicket ==
  \E applyName \in Texts, applyDesc \in Texts, applyPriority \in Priorities,
     applyEta \in Etas, at \in DateNow :
    /\ otherTab.open
    /\ ~createTicketReturnsEarly(applyName, applyDesc)
    /\ Len(issued) < MaxCreated
    /\ otherTab' = [open |-> TRUE,
                    tickets |-> createTicket(otherTab.tickets, randomUUID, applyName,
                                             applyDesc, applyPriority, applyEta, at)]
    /\ storage' = persist(otherTab'.tickets, storage, storageWritable)
    /\ clock' = at
    /\ issued' = Append(issued, nextNumber(otherTab.tickets))
    /\ UNCHANGED <<tickets, currentResultDraft, applySuccessMsg, now, storageWritable,
                   statsAt, bumped>>

OtherTabCallNext ==
  \E at \in DateNow :
    /\ otherTab.open
    /\ ~callNextReturnsEarly(otherTab.tickets)
    /\ otherTab' = [open |-> TRUE, tickets |-> callNext(otherTab.tickets, at)]
    /\ storage' = persist(otherTab'.tickets, storage, storageWritable)
    /\ clock' = at
    /\ UNCHANGED <<tickets, currentResultDraft, applySuccessMsg, issued, now,
                   storageWritable, statsAt, bumped>>

\* the first tab is opened at the last instant on a storage without the key
TabsInit ==
  /\ mounted(absent, TRUE, MaxTime)
  /\ issued = <<>>

TabsNext ==
  \/ CreateTicket
  \/ CallNext
  \/ MarkDone
  \/ ResetAll
  \/ OtherTabOpens
  \/ OtherTabCreateTicket
  \/ OtherTabCallNext

TabsSpec == TabsInit /\ [][TabsNext]_vars

(* ------------------- a queue that is served and not fed ----------------- *)

\* call-next, complete and skip on a stored array: no create, no bump and no
\* reset
DrainNext == CallNext \/ MarkDone \/ MarkSkipped

\* a stored array in which every ticket waits, created at one of two instants
DrainInit ==
  /\ QueueInit
  /\ \A i \in 1..Len(tickets) :
       tickets[i].status = "waiting" /\ tickets[i].createdAt \in 0..1

DrainSpec == DrainInit /\ [][DrainNext]_vars

(* ------------------ an operator who keeps serving the queue ------------- *)

\* no create and no reset: the queue is served, and waiting tickets may be
\* bumped
LiveNext == CallNext \/ MarkDone \/ MarkSkipped \/ BumpPriority

\* a stored array of waiting tickets in the order of their creation, two of
\* them created at the same instant
LiveInit ==
  /\ QueueInit
  /\ \A i \in 1..Len(tickets) :
       tickets[i].status = "waiting" /\ tickets[i].createdAt = i \div 2

\* the operator does not leave the call button alone for ever while a ticket
\* can be called, nor both the complete and the skip button while a ticket is
\* in progress
LiveSpec ==
  /\ LiveInit
  /\ [][LiveNext]_vars
  /\ WF_vars(CallNext)
  /\ WF_vars(MarkDone \/ MarkSkipped)

(* -------------------- the tickets that were ever bumped ----------------- *)

\* BumpPriority, the id of the bumped ticket being recorded
BumpPriorityTraced ==
  \E id \in bumpRows(tickets) :
    /\ tickets' = bumpPriority(tickets, id)
    /\ storage' = persist(tickets', storage, storageWritable)
    /\ statsAt' = clock
    /\ currentResultDraft' = draftEffect(tickets, tickets', currentResultDraft)
    /\ bumped' = bumped \cup {id}
    /\ UNCHANGED <<clock, applySuccessMsg, issued, now, storageWritable, otherTab>>

\* the page is opened on an empty store one instant before the last one, so
\* that tickets are created at different instants
OvertakeInit == TimerInit

OvertakeNext ==
  \/ CreateTicket
  \/ CallNext
  \/ MarkDone
  \/ MarkSkipped
  \/ BumpPriorityTraced
  \/ ResetAll

OvertakeSpec == OvertakeInit /\ [][OvertakeNext]_vars

(* ------------- two handlers of one render, run before the next ---------- *)

\* A handler is a closure of one render: its guard, the ticket it names and
\* the display number it assigns are read from the store of that render
\* (snap), and its setTickets updater is applied to the store as the handler
\* run before it left it (prev). For snap = prev these are the handlers above.
createTicketOn(snap, prev, id, applyName, applyDesc, applyPriority, applyEta, at) ==
  IF createTicketReturnsEarly(applyName, applyDesc) THEN prev
  ELSE Append(prev, newTicket(snap, id, applyName, applyDesc, applyPriority, applyEta, at))

\* a call whose updater takes the head of the queue of the store it is given
callNextOn_headOfPrev(snap, prev, at) ==
  IF callNextReturnsEarly(snap) \/ waitingQueue(prev) = <<>> THEN prev
  ELSE LET next == waitingQueue(prev)[1]
       IN  [i \in 1..Len(prev) |->
              IF prev[i].id = next.id THEN callNextUpdate(prev[i], at) ELSE prev[i]]

callNextOn(snap, prev, at) ==
  IF callNextReturnsEarly(snap) THEN prev
  ELSE LET next == waitingQueue(snap)[1]
       IN  [i \in 1..Len(prev) |->
              IF prev[i].id = next.id THEN callNextUpdate(prev[i], at) ELSE prev[i]]

markDoneOn(snap, prev, draft, at) ==
  IF markDoneReturnsEarly(snap) THEN prev
  ELSE LET result == trim(draft)
       IN  [i \in 1..Len(prev) |->
              IF prev[i].id = inProgress(snap).id
              THEN spread(prev[i], [status |-> "done", doneAt |-> at, result |-> result])
              ELSE prev[i]]

markSkippedOn(snap, prev) ==
  IF markSkippedReturnsEarly(snap) THEN prev
  ELSE [i \in 1..Len(prev) |->
          IF prev[i].id = inProgress(snap).id THEN markSkippedUpdate(prev[i]) ELSE prev[i]]

\* createTicket twice with filled-in forms; the effects run once, after both
TwoCreateTicket ==
  \E applyName \in Texts, applyDesc \in Texts, first \in Priorities,
     second \in Priorities, applyEta \in Etas, at \in DateNow :
    /\ ~createTicketReturnsEarly(applyName, applyDesc)
    /\ Len(issued) + 2 <= MaxCreated
    /\ tickets' =
         createTicketOn(tickets,
                        createTicketOn(tickets, tickets, randomUUID, applyName,
                                       applyDesc, first, applyEta, at),
                        randomUUID + 1, applyName, applyDesc, second, applyEta, at)
    /\ applySuccessMsg' = createTicketMsg(tickets, applyName, applyDesc)
    /\ clock' = at
    /\ statsAt' = at
    /\ issued' = issued \o <<nextNumber(tickets), nextNumber(tickets)>>
    /\ storage' = persist(tickets', storage, storageWritable)
    /\ currentResultDraft' = draftEffect(tickets, tickets', currentResultDraft)
    /\ UNCHANGED env

\* callNext twice
TwoCallNext ==
  \E at \in DateNow :
    /\ tickets' = callNextOn(tickets, callNextOn(tickets, tickets, at), at)
    /\ clock' = IF callNextReturnsEarly(tickets) THEN clock ELSE at
    /\ storage' = IF callNextReturnsEarly(tickets) THEN storage
                  ELSE persist(tickets', storage, storageWritable)
    /\ statsAt' = IF callNextReturnsEarly(tickets) THEN statsAt ELSE at
    /\ currentResultDraft' = draftEffect(tickets, tickets', currentResultDraft)
    /\ UNCHANGED <<applySuccessMsg, issued, env>>

\* callNext and markDone or markSkipped, in either order
CallNextAndFinish ==
  \E at \in DateNow, done \in BOOLEAN, callFirst \in BOOLEAN :
    /\ tickets' =
         IF callFirst
         THEN IF done THEN markDoneOn(tickets, callNextOn(tickets, tickets, at),
                                      currentResultDraft, at)
                      ELSE markSkippedOn(tickets, callNextOn(tickets, tickets, at))
         ELSE IF done THEN callNextOn(tickets, markDoneOn(tickets, tickets,
                                                          currentResultDraft, at), at)
                      ELSE callNextOn(tickets, markSkippedOn(tickets, tickets), at)
    /\ clock' = IF tickets' = tickets THEN clock ELSE at
    /\ storage' = IF tickets' = tickets THEN storage
                  ELSE persist(tickets', storage, storageWritable)
    /\ statsAt' = IF tickets' = tickets THEN statsAt ELSE at
    /\ currentResultDraft' = draftEffect(tickets, tickets', currentResultDraft)
    /\ UNCHANGED <<applySuccessMsg, issued, env>>

SnapshotNext ==
  \/ CreateTicket
  \/ CallNext
  \/ MarkDone
  \/ MarkSkipped
  \/ TwoCreateTicket
  \/ TwoCallNext
  \/ CallNextAndFinish

SnapshotSpec == Init /\ [][SnapshotNext]_vars

(* ------------------------- vocabulary of claims ------------------------ *)

Indices(ts) == 1..Len(ts)
Ids(ts) == {ts[i].id : i \in Indices(ts)}
ticketOf(ts, id) == ts[CHOOSE i \in Indices(ts) : ts[i].id = id]
WithStatus(ts, st) == {i \in Indices(ts) : ts[i].status = st}
Has(t, field) == field \in DOMAIN t

(* ------------------------------- claims -------------------------------- *)

\* C1: in every state reachable from the empty store by create, call-next,
\* complete, skip, bump-priority and reset, at most one ticket of the store
\* has status in_progress.
C1_AtMostOneInProgress ==
  Cardinality(WithStatus(tickets, "in_progress")) <= 1

\* a ticket is in progress while another one waits and call-next is clickable
C1_Witness ==
  /\ WithStatus(tickets, "in_progress") # {}
  /\ WithStatus(tickets, "waiting") # {}
  /\ applySuccessMsg.kind = "success"

StatusSteps ==
  {<<"waiting", "in_progress">>, <<"in_progress", "done">>,
   <<"in_progress", "skipped">>}

\* C2: in every step, a ticket that stays in the store keeps its status or
\* moves along waiting -> in_progress, in_progress -> done or
\* in_progress -> skipped; done and skipped are never left.
C2_StatusTransitions ==
  [][\A id \in Ids(tickets) \cap Ids(tickets') :
       LET from == ticketOf(tickets, id).status
           to == ticketOf(tickets', id).status
       IN  from = to \/ <<from, to>> \in StatusSteps]_vars

\* one ticket went all the way to done, another one to skipped
C2_Witness ==
  /\ WithStatus(tickets, "done") # {}
  /\ WithStatus(tickets, "skipped") # {}

\* C3: call-next with no ticket in progress and a non-empty waiting queue
\* puts exactly one ticket in progress; in every step, the ticket that goes
\* from waiting to in_progress is one that no waiting ticket of the pre-state
\* outranks and that no waiting ticket of equal rank precedes in createdAt,
\* and the step writes its startedAt.
C3_CallNextTakesHead ==
  /\ [](WithStatus(tickets, "in_progress") = {} /\ WithStatus(tickets, "waiting") # {}
          => \A at \in DateNow :
               Cardinality(WithStatus(callNext(tickets, at), "in_progress")) = 1)
  /\ [][\A id \in Ids(tickets) \cap Ids(tickets') :
          LET t == ticketOf(tickets, id)
              u == ticketOf(tickets', id)
          IN  t.status = "waiting" /\ u.status = "in_progress"
                => /\ \A j \in WithStatus(tickets, "waiting") :
                        /\ priorityRank(tickets[j].priority) <= priorityRank(t.priority)
                        /\ priorityRank(tickets[j].priority) = priorityRank(t.priority)
                             => tickets[j].createdAt >= t.createdAt
                   /\ ~Has(t, "startedAt")
                   /\ Has(u, "startedAt")
                   /\ u.startedAt = clock']_vars

\* the third ticket of the store was called over a waiting ticket of lower
\* rank and over one of equal rank created later
C3_Witness ==
  /\ Len(tickets) = 3
  /\ tickets[3].status = "in_progress" /\ Has(tickets[3], "startedAt")
  /\ tickets[1].status = "waiting" /\ tickets[2].status = "waiting"
  /\ priorityRank(tickets[1].priority) < priorityRank(tickets[3].priority)
  /\ tickets[2].priority = tickets[3].priority
  /\ tickets[2].createdAt > tickets[3].createdAt

storeIndex(ts, t) == CHOOSE i \in Indices(ts) : ts[i].id = t.id

\* C4: the waiting queue holds exactly the tickets with status waiting, each
\* once, by priority rank descending, then createdAt ascending, then store
\* order.
C4_WaitingQueueOrder ==
  LET q == waitingQueue(tickets)
  IN  /\ Len(q) = Cardinality(WithStatus(tickets, "waiting"))
      /\ {q[i] : i \in Indices(q)} = {tickets[i] : i \in WithStatus(tickets, "waiting")}
      /\ \A i, j \in Indices(q) :
           i < j =>
             LET ri == priorityRank(q[i].priority)
                 rj == priorityRank(q[j].priority)
             IN  \/ ri > rj
                 \/ ri = rj /\ q[i].createdAt < q[j].createdAt
                 \/ /\ ri = rj
                    /\ q[i].createdAt = q[j].createdAt
                    /\ storeIndex(tickets, q[i]) < storeIndex(tickets, q[j])

\* A(medium, t=1), B(high, t=2), C(high, t=0) are queued as [C, B, A]
C4_Witness ==
  /\ Len(tickets) = 3
  /\ \A i \in 1..3 : tickets[i].status = "waiting"
  /\ <<tickets[1].priority, tickets[1].createdAt>> = <<"medium", 1>>
  /\ <<tickets[2].priority, tickets[2].createdAt>> = <<"high", 2>>
  /\ <<tickets[3].priority, tickets[3].createdAt>> = <<"high", 0>>
  /\ [i \in 1..3 |-> waitingQueue(tickets)[i].id] = <<3, 2, 1>>

numberValue(t) == parseInt(t.number)

\* C5, as stated: every number issued is greater than every number issued
\* before it, over the whole run, resets included.
C5_NumbersNeverReused ==
  \A i, j \in Indices(issued) : i < j => parseInt(issued[i]) < parseInt(issued[j])

\* C5, amended: the numbers of the tickets in the store are pairwise
\* different and increase in creation order, so a new number is greater than
\* every number issued since the last reset that emptied the store.
C5_NumbersIncreaseWithinStore ==
  /\ \A i, j \in Indices(tickets) : i < j => numberValue(tickets[i]) < numberValue(tickets[j])
  /\ \A i \in Indices(tickets) : \E k \in Indices(issued) : issued[k] = tickets[i].number

\* a ticket has been created in a store that already held one
C5_Witness ==
  /\ Len(tickets) = 2
  /\ tickets[2].status = "waiting"
  /\ applySuccessMsg = successMsg(tickets[2].number, 1)

MaxOf(S) == IF S = {} THEN 0 ELSE CHOOSE m \in S : \A x \in S : x <= m

\* C6: the number of a newly created ticket is the greatest numeric value
\* among the numbers in the store (0 if empty) plus one, in decimal, left
\* padded with zeros to three digits: "001" on the empty store, "002" after
\* "001"; padding never shortens a longer number.
C6_NextNumber ==
  /\ [](/\ pad3(7) = <<0, 0, 7>>
        /\ pad3(42) = <<0, 4, 2>>
        /\ pad3(999) = <<9, 9, 9>>
        /\ pad3(1000) = <<1, 0, 0, 0>>)
  /\ [][Len(tickets') = Len(tickets) + 1 =>
          LET n == tickets'[Len(tickets')].number
              v == MaxOf({numberValue(tickets[i]) : i \in Indices(tickets)}) + 1
          IN  /\ parseInt(n) = v
              /\ Len(n) >= 3
              /\ Len(n) > 3 => n[1] # 0
              /\ tickets = <<>> => n = <<0, 0, 1>>
              /\ (Len(tickets) = 1 /\ tickets[1].number = <<0, 0, 1>>) => n = <<0, 0, 2>>]_vars

\* the first ticket created after a reset is numbered 001 again
C6_Witness ==
  /\ issued = <<(<<0, 0, 1>>), (<<0, 0, 1>>)>>
  /\ Len(tickets) = 1
  /\ tickets[1].number = <<0, 0, 1>>

\* C7: call-next while a ticket is in progress or while nothing waits, and
\* complete or skip while no ticket is in progress, return the store as it is.
C7_ViolatedPreconditionsAreNoOps ==
  /\ (WithStatus(tickets, "in_progress") # {} \/ WithStatus(tickets, "waiting") = {})
       => \A at \in DateNow : callNext(tickets, at) = tickets
  /\ WithStatus(tickets, "in_progress") = {}
       => /\ \A at \in DateNow, d \in Drafts : markDone(tickets, d, at) = tickets
          /\ markSkipped(tickets) = tickets

\* call-next is refused while a ticket with a typed result draft is in
\* progress and another ticket waits
C7_Witness ==
  /\ WithStatus(tickets, "in_progress") # {}
  /\ WithStatus(tickets, "waiting") # {}
  /\ currentResultDraft # <<>>

\* C8: doneAt and result are present exactly on done tickets; they are
\* written by the step that takes the ticket from in_progress to done, with
\* the time of that step and the trimmed draft, and never change afterwards.
C8_CompletionWrittenOnce ==
  /\ [](\A i \in Indices(tickets) :
          /\ Has(tickets[i], "doneAt") <=> tickets[i].status = "done"
          /\ Has(tickets[i], "result") <=> tickets[i].status = "done")
  /\ [][\A id \in Ids(tickets) \cap Ids(tickets') :
          LET t == ticketOf(tickets, id)
              u == ticketOf(tickets', id)
          IN  /\ Has(t, "doneAt") =>
                   Has(u, "doneAt") /\ u.doneAt = t.doneAt /\ u.result = t.result
              /\ (~Has(t, "doneAt") /\ (Has(u, "doneAt") \/ Has(u, "result"))) =>
                   /\ t.status = "in_progress" /\ u.status = "done"
                   /\ u.doneAt = clock'
                   /\ u.result = trim(currentResultDraft)]_vars

\* a ticket completed with a result, and another ticket called after it
C8_Witness ==
  \E i, j \in Indices(tickets) :
    /\ tickets[i].status = "done" /\ tickets[i].result = <<"o", "k">>
    /\ tickets[j].status = "in_progress"
    /\ tickets[j].startedAt >= tickets[i].doneAt

\* C9: in every step the priority rank of a ticket that stays in the store
\* does not decrease; when it changes it grows by exactly one, and the step
\* changes nothing but the priority of that one ticket (a bump).
C9_PriorityOnlyBumpsUp ==
  [][\A id \in Ids(tickets) \cap Ids(tickets') :
       LET t == ticketOf(tickets, id)
           u == ticketOf(tickets', id)
       IN  /\ priorityRank(u.priority) >= priorityRank(t.priority)
           /\ u.priority # t.priority =>
                /\ priorityRank(u.priority) = priorityRank(t.priority) + 1
                /\ tickets' = [i \in Indices(tickets) |->
                                 IF tickets[i].id = id
                                 THEN [tickets[i] EXCEPT !.priority = u.priority]
                                 ELSE tickets[i]]
                /\ UNCHANGED <<clock, applySuccessMsg, issued>>]_vars

\* a waiting ticket was bumped: it now ranks at least as high as a ticket
\* created after it that was called before it
C9_Witness ==
  \E i, j \in Indices(tickets) :
    /\ tickets[i].status = "waiting" /\ tickets[j].status # "waiting"
    /\ i < j /\ tickets[i].createdAt <= tickets[j].createdAt
    /\ priorityRank(tickets[i].priority) >= priorityRank(tickets[j].priority)

\* C10: bump-priority on a ticket whose priority is high returns the store
\* as it is, and a third and a fourth bump of the same ticket give the store
\* that two bumps give.
C10_BumpCeiling ==
  \A id \in Ids(tickets) :
    LET once == bumpPriority(tickets, id)
        twice == bumpPriority(once, id)
        thrice == bumpPriority(twice, id)
        fourTimes == bumpPriority(thrice, id)
    IN  /\ ticketOf(tickets, id).priority = "high" => once = tickets
        /\ thrice = twice
        /\ fourTimes = twice

\* a waiting ticket bumped up to high after a later ticket was called
C10_Witness ==
  \E i, j \in Indices(tickets) :
    /\ tickets[i].status = "waiting" /\ tickets[i].priority = "high"
    /\ tickets[j].status # "waiting" /\ tickets[j].priority # "high"
    /\ i < j /\ tickets[i].createdAt <= tickets[j].createdAt

\* a text that holds nothing but spaces, the empty text included
isBlank(s) == \A i \in 1..Len(s) : s[i] = " "

\* C11: create with a name or a description that is empty after trimming
\* returns the store as it is and sets the validation message; in every step
\* that sets the validation message the store, the numbers issued and the
\* persisted value stay as they were.
C11_EmptyFieldsRejected ==
  /\ [](\A applyName, applyDesc \in Texts \cup {<<>>, <<" ", " ">>, <<"x">>} :
          isBlank(applyName) \/ isBlank(applyDesc)
            => /\ \A p \in Priorities, e \in Etas, at \in DateNow :
                    createTicket(tickets, randomUUID, applyName, applyDesc, p, e, at) = tickets
               /\ createTicketMsg(tickets, applyName, applyDesc) = validationMsg)
  /\ [][applySuccessMsg # validationMsg /\ applySuccessMsg' = validationMsg
          => tickets' = tickets /\ issued' = issued /\ storage' = storage]_vars

\* a create was rejected on a store that already holds a ticket
C11_Witness ==
  /\ applySuccessMsg = validationMsg
  /\ tickets # <<>>

\* a store of six tickets: 001 in progress, 002..004 waiting and queued as
\* [003, 002, 004], 005 done, 006 skipped
C12_Example ==
  <<callNextUpdate(storedWaiting(1, "high", 0), 0),
    storedWaiting(2, "low", 0),
    storedWaiting(3, "medium", 0),
    storedWaiting(4, "low", 1),
    spread(callNextUpdate(storedWaiting(5, "low", 0), 0),
           [status |-> "done", doneAt |-> 0, result |-> <<>>]),
    storedSkipped(6)>>

\* C12: the count of tickets ahead of a queried ticket is, for a waiting
\* ticket, its zero-based index in the waiting queue plus one if some ticket
\* is in progress, and zero for a ticket in progress, done or skipped; the
\* waiting ticket at index 2 behind a ticket in progress gets 3.
C12_AheadCount ==
  /\ \A i \in Indices(tickets) :
       LET t == tickets[i]
           q == waitingQueue(tickets)
           ahead == queriedAheadCount(tickets, t.number)
       IN  IF t.status = "waiting"
           THEN \E k \in Indices(q) :
                  /\ q[k].id = t.id
                  /\ ahead = (k - 1) + IF WithStatus(tickets, "in_progress") # {} THEN 1 ELSE 0
           ELSE ahead = 0
  /\ queriedAheadCount(C12_Example, pad3(4)) = 3
  /\ \A n \in {1, 5, 6} : queriedAheadCount(C12_Example, pad3(n)) = 0

\* a ticket in progress and, behind it and one waiting ticket that was
\* created after it, a queried waiting ticket: two ahead
C12_Witness ==
  /\ WithStatus(tickets, "in_progress") # {}
  /\ \E i, j \in WithStatus(tickets, "waiting") :
       /\ i < j
       /\ waitingQueue(tickets)[1].id = tickets[j].id
       /\ queriedAheadCount(tickets, tickets[i].number) = 2

OptionalFields == {"startedAt", "doneAt", "result"}

NoStoredArray(raw) ==
  \/ raw.kind \in {"absent", "empty", "invalid"}
  \/ raw.kind = "json" /\ raw.value.type # "array"

\* C14: loading a stored value that is absent, empty, unparsable or no array
\* yields the empty store: so it is for every such content and for the
\* value in storage in every state, and a page load on such a value starts
\* with the empty store.
C14_LoadFailsSoft ==
  /\ [](/\ \A raw \in StoredContents : NoStoredArray(raw) => load(raw) = <<>>
        /\ NoStoredArray(storage) => load(storage) = <<>>)
  /\ [][Reload /\ NoStoredArray(storage) => tickets' = <<>>]_vars

\* a page was loaded on a JSON text that is no array, after a ticket had
\* been created: storage took no write, and the store is empty again
C14_Witness ==
  /\ storage.kind = "json" /\ storage.value.type = "object"
  /\ tickets = <<>>
  /\ issued # <<>>

Terminal == {"done", "skipped"}

C16_StartedAt ==
  /\ [](\A i \in Indices(tickets) :
          Has(tickets[i], "startedAt") <=> tickets[i].status # "waiting")
  /\ [][/\ \A id \in Ids(tickets) \cap Ids(tickets') :
             LET t == ticketOf(tickets, id)
                 u == ticketOf(tickets', id)
             IN  /\ Has(t, "startedAt")
                      => Has(u, "startedAt") /\ u.startedAt = t.startedAt
                 /\ ~Has(t, "startedAt") /\ Has(u, "startedAt")
                      => /\ t.status = "waiting"
                         /\ u.status = "in_progress"
                         /\ u.startedAt = clock'
        /\ \A id \in Ids(tickets') \ Ids(tickets) :
             ~Has(ticketOf(tickets', id), "startedAt")]_vars

\* one ticket was called and completed, another one was created after that
\* and still waits
C16_Witness ==
  \E i, j \in Indices(tickets) :
    /\ i < j
    /\ tickets[i].status = "done" /\ Has(tickets[i], "startedAt")
    /\ tickets[i].doneAt >= tickets[i].startedAt
    /\ tickets[j].status = "waiting" /\ ~Has(tickets[j], "startedAt")

\* C17: in every step that changes the store, the persisted value becomes
\* the serialization of the whole new store if storage takes the write, and
\* stays as it was if the write fails, while the store keeps the result of
\* the operation; the persisted value is never changed in any other way.
C17_PersistAfterMutation ==
  [][/\ tickets' # tickets
          => IF storageWritable
             THEN storage' = JSONstringify(tickets') /\ load(storage') = tickets'
             ELSE storage' = storage
     /\ storage' # storage
          => storageWritable /\ storage' = JSONstringify(tickets')]_vars

\* writes failed after a first ticket was persisted: the store went on to a
\* second ticket and a call, the persisted value still holds the first only
C17_Witness ==
  /\ ~storageWritable
  /\ Len(load(storage)) = 1
  /\ Len(tickets) = 2
  /\ load(storage)[1].id = tickets[1].id
  /\ WithStatus(tickets, "in_progress") # {}

\* C18: reset returns the empty store when it is confirmed, whatever the
\* store holds, a ticket in progress included, and the store as it is when
\* it is declined; a reset step empties the store, the message and the
\* persisted array, or changes nothing, and no other step removes a ticket.
C18_Reset ==
  /\ [](/\ resetAll(tickets, TRUE) = <<>>
        /\ resetAll(tickets, FALSE) = tickets)
  /\ [][/\ ResetAll
             => \/ UNCHANGED vars
                \/ /\ tickets' = <<>>
                   /\ applySuccessMsg' = emptyMsg
                   /\ storage' = JSONstringify(<<>>)
        /\ Ids(tickets) \ Ids(tickets') # {} => tickets' = <<>>]_vars

\* a store that held tickets was reset: it is empty, and so is what is
\* persisted
C18_Witness ==
  /\ tickets = <<>>
  /\ issued # <<>>
  /\ load(storage) = <<>>
  /\ applySuccessMsg = emptyMsg

\* C19: a timer tick changes the displayed time and nothing else: in every
\* step that changes the displayed time, and in every tick between the
\* operations on the store, the store, the persisted value, the draft, the
\* message and the numbers issued stay as they were.
C19_TickChangesTimeOnly ==
  [][/\ now' # now
          => UNCHANGED <<tickets, storage, currentResultDraft, applySuccessMsg, issued>>
     /\ TimerTick
          => UNCHANGED <<tickets, storage, currentResultDraft, applySuccessMsg, issued>>]_vars

\* a tick showed the last instant after a ticket had been created and
\* called at the instant before; the ticket is still in progress, and the
\* persisted value is the store
C19_Witness ==
  /\ now = MaxTime
  /\ \E i \in WithStatus(tickets, "in_progress") : tickets[i].startedAt < now
  /\ storage = JSONstringify(tickets)

\* C20: with two tabs on one storage key, every save replaces the persisted
\* array by the array of the tab that saves: a step that changes the store
\* of one tab persists exactly that store and leaves the store of the other
\* tab as it is, whatever the other tab had persisted before.
C20_LastSaveWins ==
  [][/\ tickets' # tickets
          => storage' = JSONstringify(tickets') /\ otherTab' = otherTab
     /\ otherTab' # otherTab
          => storage' = JSONstringify(otherTab'.tickets) /\ tickets' = tickets
     /\ storage' # storage
          => \/ storage' = JSONstringify(tickets')
             \/ storage' = JSONstringify(otherTab'.tickets)]_vars

\* both tabs loaded the empty store; the second tab created a ticket and
\* persisted it, then the first tab created one and saved: the persisted
\* store is the store of the first tab, and the ticket of the second tab,
\* which that tab still shows, is not in it
C20_Witness ==
  /\ otherTab.open
  /\ storage = JSONstringify(tickets)
  /\ tickets # <<>>
  /\ \E i \in Indices(otherTab.tickets) :
       /\ otherTab.tickets[i].id \notin Ids(load(storage))
       /\ otherTab.tickets[i].id < tickets[1].id

\* the tickets completed, and those started, on the local day of instant t
DoneOn(t) ==
  {i \in Indices(tickets) :
     Has(tickets[i], "doneAt") /\ localDate(tickets[i].doneAt) = localDate(t)}
StartedOn(t) ==
  {i \in Indices(tickets) :
     Has(tickets[i], "startedAt") /\ localDate(tickets[i].startedAt) = localDate(t)}

\* C21, as stated: the completed-today count that is displayed is the number
\* of tickets of the store whose doneAt falls on the current local day, all
\* of them done, and each displayed average is 0 when no ticket was started,
\* respectively completed, on the current local day.
C21_StatsOfCurrentDay ==
  /\ Len(todayDone(tickets, statsAt)) = Cardinality(DoneOn(clock))
  /\ \A i \in DoneOn(clock) : tickets[i].status = "done"
  /\ StartedOn(clock) = {} => avgTodayWaitMinutes(tickets, statsAt) = 0
  /\ DoneOn(clock) = {} => avgTodayHandleMinutes(tickets, statsAt) = 0

\* new is old with one waiting ticket without optional fields at its end
AppendsOne(old, new) ==
  /\ Len(new) = Len(old) + 1
  /\ SubSeq(new, 1, Len(old)) = old
  /\ new[Len(new)].status = "waiting"
  /\ DOMAIN new[Len(new)] \cap {"startedAt", "doneAt", "result"} = {}
  /\ new[Len(new)].id \notin Ids(old)

\* new holds the tickets of old, entry by entry, with at most one changed
ChangesAtMostOne(old, new) ==
  /\ Len(new) = Len(old)
  /\ \A i \in Indices(old) : new[i].id = old[i].id
  /\ Cardinality({i \in Indices(old) : new[i] # old[i]}) <= 1

\* C22: a create that is accepted appends one waiting ticket without
\* startedAt, doneAt and result and changes no ticket of the store;
\* call-next, complete, skip and bump-priority keep the entries of the store
\* in place and change at most one of them; every step is one of these or
\* empties the store.
C22_FrameEffects ==
  /\ [](/\ \A applyName, applyDesc \in Texts, p \in Priorities, e \in Etas, at \in DateNow :
             LET new == createTicket(tickets, randomUUID, applyName, applyDesc, p, e, at)
             IN  new = tickets \/ AppendsOne(tickets, new)
        /\ \A at \in DateNow : ChangesAtMostOne(tickets, callNext(tickets, at))
        /\ \A at \in DateNow, d \in Drafts : ChangesAtMostOne(tickets, markDone(tickets, d, at))
        /\ ChangesAtMostOne(tickets, markSkipped(tickets))
        /\ \A id \in Ids(tickets) : ChangesAtMostOne(tickets, bumpPriority(tickets, id)))
  /\ [][\/ AppendsOne(tickets, tickets')
        \/ ChangesAtMostOne(tickets, tickets')
        \/ tickets' = <<>>]_vars

\* a second ticket was appended behind one that has been called
C22_Witness ==
  /\ Len(tickets) = 2
  /\ tickets[1].id < tickets[2].id
  /\ tickets[1].status = "in_progress"
  /\ tickets[2].status = "waiting"
  /\ applySuccessMsg.kind = "success" /\ applySuccessMsg.number = tickets[2].number

\* C23: in every state reachable from the empty store no two tickets of the
\* store carry the same display number, so a query by a number finds at most
\* one ticket, and the query by the number of a ticket finds that ticket.
C23_UniqueNumbersInStore ==
  /\ \A i, j \in Indices(tickets) : i # j => tickets[i].number # tickets[j].number
  /\ \A n \in 1..(MaxCreated + 1) :
       Cardinality({i \in Indices(tickets) : tickets[i].number = pad3(n)}) <= 1
  /\ \A i \in Indices(tickets) : queriedTicket(tickets, tickets[i].number) = tickets[i]

\* a ticket was created after the only other ticket had left the waiting
\* queue; the query by its number finds it
C23_Witness ==
  /\ Len(tickets) = 2
  /\ tickets[1].status = "done"
  /\ tickets[2].createdAt >= tickets[1].doneAt
  /\ queriedTicket(tickets, pad3(2)) = tickets[2]
  /\ queriedTicket(tickets, pad3(3)) = null

queueIds(ts) == [k \in 1..Len(waitingQueue(ts)) |-> waitingQueue(ts)[k].id]

\* the store after n more successful calls, the ticket in progress, if any,
\* being skipped before each call
RECURSIVE afterCalls(_, _)
afterCalls(ts, n) ==
  IF n = 0 THEN ts ELSE callNext(markSkipped(afterCalls(ts, n - 1)), clock)

\* C24: with no create, bump or reset, the ticket at index i of the waiting
\* queue (counted from 0) is still waiting after i further successful calls
\* and in progress after the call that follows; in every step, a successful
\* call takes the head of the queue and moves every other waiting ticket up
\* by one, and complete and skip leave the queue as it is.
C24_CalledAtItsTurn ==
  /\ [](\A q \in {queueIds(tickets)} : \A k \in 1..Len(q) : \A n \in 0..k :
          \A store \in {afterCalls(tickets, n)} :
            ticketOf(store, q[k]).status =
              IF n = k THEN "in_progress" ELSE "waiting")
  /\ [][\A q \in {queueIds(tickets)} :
          LET called == {id \in Ids(tickets) :
                           /\ ticketOf(tickets, id).status = "waiting"
                           /\ ticketOf(tickets', id).status = "in_progress"}
          IN  IF called # {}
              THEN called = {q[1]} /\ queueIds(tickets') = Tail(q)
              ELSE queueIds(tickets') = q]_vars

\* the ticket of lowest rank is called third: one ticket of higher rank is
\* done, one is skipped after its call
C24_Witness ==
  \E i, j, k \in Indices(tickets) :
    /\ tickets[i].status = "in_progress" /\ tickets[i].priority = "low"
    /\ tickets[j].status = "done" /\ tickets[j].priority = "high"
    /\ tickets[k].status = "skipped" /\ tickets[k].priority = "medium"

\* C25: a waiting ticket that was never bumped is overtaken by tickets of
\* strictly higher rank only: a ticket created strictly later that has left
\* the waiting state has a strictly higher priority rank.
C25_NeverOvertaken ==
  \A i, j \in Indices(tickets) :
    ( /\ tickets[i].status = "waiting"
      /\ tickets[i].id \notin bumped
      /\ tickets[j].status # "waiting"
      /\ tickets[j].createdAt > tickets[i].createdAt )
    => priorityRank(tickets[j].priority) > priorityRank(tickets[i].priority)

\* a ticket created later was bumped and served, the older ticket, never
\* bumped, still waits
C25_Witness ==
  \E i, j \in Indices(tickets) :
    /\ tickets[i].status = "waiting"
    /\ tickets[i].id \notin bumped
    /\ tickets[j].status = "done"
    /\ tickets[j].id \in bumped
    /\ tickets[j].createdAt > tickets[i].createdAt

\* C26: when call-next is weakly fair, complete-or-skip is weakly fair and
\* no ticket is created and no reset is made, every ticket of the store is
\* eventually done or skipped.
C26_EveryTicketServed ==
  <>(\A i \in Indices(tickets) : tickets[i].status \in Terminal)

\* the whole store was served: some tickets are done, some are skipped
C26_Witness ==
  /\ Len(tickets) = MaxLen
  /\ \A i \in Indices(tickets) : tickets[i].status \in Terminal
  /\ WithStatus(tickets, "done") # {}
  /\ WithStatus(tickets, "skipped") # {}

\* index of id in the sequence of ids q, 0 when it is not there
indexIn(q, id) == IF \E k \in 1..Len(q) : q[k] = id
                  THEN CHOOSE k \in 1..Len(q) : q[k] = id ELSE 0

without(q, id) == SelectSeq(q, LAMBDA x : x # id)

\* C27: bumping a waiting ticket never moves it to a later index of the
\* waiting queue and keeps the other waiting tickets in their order; bumping
\* a ticket that does not wait leaves the waiting queue as it is.
C27_BumpMovesForwardOnly ==
  \A id \in Ids(tickets) :
    \A q \in {queueIds(tickets)} :
      \A after \in {bumpPriority(tickets, id)} :
        IF ticketOf(tickets, id).status = "waiting"
        THEN /\ indexIn(queueIds(after), id) >= 1
             /\ indexIn(queueIds(after), id) <= indexIn(q, id)
             /\ without(queueIds(after), id) = without(q, id)
        ELSE waitingQueue(after) = waitingQueue(tickets)

\* the bump of the last of two waiting tickets moves it to the head of the
\* queue, and the bump of the ticket in progress changes its priority
C27_Witness ==
  /\ Len(queueIds(tickets)) = 2
  /\ \E id \in Ids(tickets) :
       /\ indexIn(queueIds(tickets), id) = 2
       /\ indexIn(queueIds(bumpPriority(tickets, id)), id) = 1
  /\ \E id \in Ids(tickets) :
       /\ ticketOf(tickets, id).status = "in_progress"
       /\ bumpPriority(tickets, id) # tickets

\* C28: the number of people ahead that the success message of create
\* reports is the position-ahead count that the query returns for the new
\* ticket in the store that create leaves.
C28_MessageAheadIsQueryAhead ==
  \A applyName \in Texts, applyDesc \in Texts, applyPriority \in Priorities,
     applyEta \in Etas, at \in DateNow :
    ~createTicketReturnsEarly(applyName, applyDesc) =>
      \A created \in {createTicket(tickets, randomUUID, applyName, applyDesc,
                                   applyPriority, applyEta, at)} :
        createTicketMsg(tickets, applyName, applyDesc).ahead =
          queriedAheadCount(created, nextNumber(tickets))

\* C29: the draft is empty whenever the ticket in progress changes, it is
\* typed only while a ticket is in progress, and complete stores the trimmed
\* draft on the ticket that was in progress: a text is recorded on the ticket
\* it was typed for.
C29_ResultIsOwnDraft ==
  /\ [](currentResultDraft # <<>> => inProgress(tickets) # null)
  /\ [][/\ inProgress(tickets').id # inProgress(tickets).id
             => currentResultDraft' = <<>>
        /\ (currentResultDraft' # currentResultDraft /\ currentResultDraft' # <<>>)
             => (inProgress(tickets) # null /\ tickets' = tickets)
        /\ \A i \in Indices(tickets) \cap Indices(tickets') :
             (tickets[i].status = "in_progress" /\ tickets'[i].status = "done")
               => tickets'[i].result = trim(currentResultDraft)]_vars

\* the first ticket was completed with the typed text, trimmed, and the
\* ticket called after it starts with an empty draft
C29_Witness ==
  \E i, j \in Indices(tickets) :
    /\ tickets[i].status = "done"
    /\ tickets[i].result = <<"o", "k">>
    /\ tickets[j].status = "in_progress"
    /\ currentResultDraft = <<>>

\* C30: when two handlers of one render run before the next render (two
\* calls, a call with a complete or a skip, two creates), the store holds at
\* most one ticket in progress, and the two tickets of two creates carry the
\* same display number.
C30_SameSnapshot ==
  /\ [](Cardinality(WithStatus(tickets, "in_progress")) <= 1)
  /\ [][Len(tickets') = Len(tickets) + 2 =>
          /\ tickets'[Len(tickets) + 1].number = tickets'[Len(tickets) + 2].number
          /\ tickets'[Len(tickets) + 1].id # tickets'[Len(tickets) + 2].id
          /\ SubSeq(tickets', 1, Len(tickets)) = tickets]_vars

\* two tickets of one display number, one of them called
C30_Witness ==
  \E i, j \in Indices(tickets) :
    /\ i # j
    /\ tickets[i].number = tickets[j].number
    /\ tickets[i].status = "in_progress"
    /\ tickets[j].status = "waiting"

====
